---- MODULE Spec2Model ----
(***************************************************************************)
(* Verification model of the resilient orchestration core of the stock     *)
(* prediction backend:                                                     *)
(*   - the data-source fallback chain (data_collector/fallback_manager.py, *)
(*     data_collector/sources/base.py and the four concrete sources),      *)
(*   - the parallel AI dispatch (ai_predictor/predictor.py),               *)
(*   - the ensemble engine (ensemble/engine.py, models/result.py),         *)
(*   - the prediction pipeline (services/prediction_service.py,            *)
(*     ai_predictor/parser.py).                                            *)
(*                                                                         *)
(* The specifications share the variables; each moves its own part and     *)
(* leaves the other parts at their initial value:                          *)
(*   Spec             sequential resolutions of the fallback chain         *)
(*   SpecConcurrent   resolutions in parallel thread-pool workers          *)
(*   SpecDispatch     one predict_all call after another                   *)
(*   SpecDispatchFair the same, with time, timers and the gather fair      *)
(*   SpecEnsemble     the ensemble engine applied to bounded inputs        *)
(*   SpecPipeline     one PredictionService.predict request after another  *)
(***************************************************************************)
EXTENDS Integers, Sequences, FiniteSets, TLC

VARIABLES
    \* ---- fallback chain -------------------------------------------------
    available,      \* FDR_AVAILABLE / PYKRX_AVAILABLE / bool(api_key), per source
    enabled,        \* DataSource.enabled, per source
    failure_count,  \* DataSource.failure_count, per source
    pc,             \* per resolver thread: position inside fetch_with_fallback
    req,            \* per thread: the (symbol, market) of the running call
    active_sources, \* per thread: the local list built at fallback_manager.py:56
    idx,            \* per thread: position of the for loop in active_sources
    tmp,            \* per thread: value read by `self.failure_count += 1`
    ret,            \* per thread: value returned by fetch_with_fallback
    calls,          \* history, per thread: fetch_realtime invocations of the call
    snap,           \* history, per thread: `enabled` as it was when the call began
    consec,         \* history, per source: failed invocations since success/reset
    revived,        \* history, per source: reset after the breaker disabled it,
                    \* until the end of the next call
    status,         \* value returned by get_status, if the last step was a call of it
    \* ---- AI dispatch ----------------------------------------------------
    predictors,     \* AIPredictor.predictors (keys registered by _init_predictors)
    dpc,            \* position inside predict_all
    prompts,        \* keys of the prompts argument
    model_names,    \* the local list model_names
    task,           \* per model name: state of its _safe_predict task
    results,        \* per model name: value its task handed to gather
    late,           \* history, per model name: a response arrived after its timeout
    clock,          \* time since dispatch, in ticks
    predictions,    \* value returned by predict_all
    \* ---- ensemble engine ------------------------------------------------
    inputs,         \* the predictions argument (insertion-ordered)
    call,           \* the last engine call and its outcome
    engine,         \* the EnsembleEngine object (its attributes)
    previous,       \* history: the calculate_ensemble call before `call`
    other,          \* a calculate_ensemble call of an independent request
    \* ---- prediction pipeline -------------------------------------------
    ppc,                \* position inside PredictionService.predict
    raw_predictions,    \* the local raw_predictions (insertion-ordered)
    parsed_predictions, \* the local parsed_predictions (insertion-ordered)
    ensemble_result,    \* the local ensemble_result
    outcome             \* what predict returned or raised

resolverVars == <<available, enabled, failure_count, pc, req, active_sources,
                  idx, tmp, ret, calls, snap, consec, revived, status>>
dispatchVars == <<predictors, dpc, prompts, model_names, task, results, late,
                  clock, predictions>>
ensembleVars == <<inputs, call, engine, previous, other>>
pipelineVars == <<ppc, raw_predictions, parsed_predictions, ensemble_result, outcome>>
vars == <<resolverVars, dispatchVars, ensembleVars, pipelineVars>>

\* Values are records, so that any two of them can be compared.
NoValue == [kind |-> "NoValue"]   \* no value yet (local not assigned, call not returned)
None == [kind |-> "None"]         \* Python's None
ExceptionValue == [kind |-> "Exception"]   \* an exception object held as a value

(***************************************************************************)
(* Generic helpers                                                         *)
(***************************************************************************)
Range(s) == {s[i] : i \in DOMAIN s}

RECURSIVE SeqSum(_)
SeqSum(s) == IF s = <<>> THEN 0 ELSE Head(s) + SeqSum(Tail(s))

(***************************************************************************)
(*                       FALLBACK CHAIN (resolver)                         *)
(***************************************************************************)
NumThreads == 2
Threads == 1..NumThreads
MainThread == CHOOSE t \in Threads : \A u \in Threads : t <= u

Symbols == {"AAPL"}
Markets == {"kosdaq", "NASDAQ", "LSE"}

\* str.upper() on the markets of the model
Upper(m) == IF m = "kosdaq" THEN "KOSDAQ" ELSE m

\* fallback_manager.py:27-32, in registration order
Registered == <<"YahooFinance", "FinanceDataReader", "PyKrx", "AlphaVantage">>
SourceNames == Range(Registered)

\* the priority each constructor passes to DataSource.__init__
Priority(s) ==
    CASE s = "YahooFinance" -> 1
      [] s = "FinanceDataReader" -> 2
      [] s = "PyKrx" -> 3
      [] s = "AlphaVantage" -> 4

\* list.sort(key=priority) is stable: an element goes behind its equals
RECURSIVE InsertByPriority(_, _)
InsertByPriority(s, sorted) ==
    IF sorted = <<>> THEN <<s>>
    ELSE IF Priority(s) < Priority(Head(sorted))
         THEN <<s>> \o sorted
         ELSE <<Head(sorted)>> \o InsertByPriority(s, Tail(sorted))

\* a sort on the negated key: the highest priority number first
RECURSIVE SortDescending(_)
SortDescending(l) ==
    IF l = <<>> THEN <<>>
    ELSE LET rest == SortDescending(Tail(l))
             before == SelectSeq(rest, LAMBDA x : Priority(x) > Priority(Head(l)))
             after == SelectSeq(rest, LAMBDA x : Priority(x) <= Priority(Head(l)))
         IN  before \o <<Head(l)>> \o after

RECURSIVE SortByPriority(_)
SortByPriority(l) ==
    IF l = <<>> THEN <<>>
    ELSE InsertByPriority(l[Len(l)], SortByPriority(SubSeq(l, 1, Len(l) - 1)))

\* FallbackManager.sources after _register_sources
sources == SortByPriority(Registered)

\* DataSource.max_failures
max_failures == 3

\* supports_market of each concrete source
SupportsMarket(s, market) ==
    CASE s = "YahooFinance" -> TRUE
      [] s = "FinanceDataReader" -> Upper(market) \in {"KRX", "KOSPI", "KOSDAQ"}
      [] s = "PyKrx" -> Upper(market) \in {"KRX", "KOSPI", "KOSDAQ"}
      [] s = "AlphaVantage" -> Upper(market) \in {"NASDAQ", "NYSE", "AMEX"}

\* the value `enabled` has after each constructor ran
InitialEnabled(s, avail) == IF s = "YahooFinance" THEN TRUE ELSE avail[s]

(* A payload is the dict the sources build: six keys.  Quotes a source can  *)
(* return for a request; all four sources report market_cap 0.0.           *)
QuotePrices == {150, 151}

Payload(price, cap, volume, value, change, prev) ==
    [current_price |-> price, market_cap |-> cap, trading_volume |-> volume,
     trading_value |-> value, change_rate |-> change, previous_close |-> prev]

\* the dict returned at the end of each fetch_realtime
SourcePayload(price) ==
    LET volume == 2
        previous_close == 150
    IN  Payload(price, 0, volume, price * volume,
                ((price - previous_close) * 100) \div previous_close,
                previous_close)

SourcePayloads == {SourcePayload(p) : p \in QuotePrices}

(* What one invocation of fetch_realtime can do: return a payload, return  *)
(* None, return an empty dict, or raise an Exception.  A source whose      *)
(* library or API key is missing returns None before doing anything.       *)
Outcomes(s, avail) ==
    IF s # "YahooFinance" /\ ~avail[s]
    THEN {[out |-> "none", data |-> None]}
    ELSE {[out |-> "ok", data |-> d] : d \in SourcePayloads}
         \cup {[out |-> "none", data |-> None],
               [out |-> "empty", data |-> None],
               [out |-> "raise", data |-> None]}

(* _get_mock_data: random.uniform(-0.05, 0.05) and random.randint are      *)
(* draws; the model draws the drift in percent and the volume in millions. *)
MockDrifts == {-4, 0, 4}
MockVolumes == {1, 10}

BasePrice(market) ==
    IF Upper(market) \in {"KOSPI", "KOSDAQ", "KRX"} THEN 50000 ELSE 150

GetMockData(symbol, market, drift, volume) ==
    LET base_price == BasePrice(market)
        current_price == (base_price * (100 + drift)) \div 100
        previous_close == base_price
    IN  Payload(current_price, current_price * volume * 100, volume,
                current_price * volume,
                ((current_price - previous_close) * 100) \div previous_close,
                previous_close)

MockPayloads(symbol, market) ==
    {GetMockData(symbol, market, d, v) : d \in MockDrifts, v \in MockVolumes}

\* a try_fetch without its except clause
TryFetchCatchesNothing(o) == FALSE

\* `except Exception` of try_fetch (base.py:93): the raise is absorbed
TryFetchCatches(o) == o.out = "raise"

\* `if data:` of try_fetch (base.py:83) and of fetch_with_fallback (:66)
Truthy(o) == o.out = "ok"

\* the list comprehension at fallback_manager.py:56
ActiveSources(en) == SelectSeq(sources, LAMBDA s : en[s])

Quiescent == \A t \in Threads : pc[t] = "idle"

ResolverInit ==
    /\ available \in {a \in [SourceNames -> BOOLEAN] : a["YahooFinance"]}
    /\ enabled = [s \in SourceNames |-> InitialEnabled(s, available)]
    /\ failure_count = [s \in SourceNames |-> 0]
    /\ pc = [t \in Threads |-> "idle"]
    /\ req = [t \in Threads |-> NoValue]
    /\ active_sources = [t \in Threads |-> <<>>]
    /\ idx = [t \in Threads |-> 0]
    /\ tmp = [t \in Threads |-> 0]
    /\ ret = [t \in Threads |-> NoValue]
    /\ calls = [t \in Threads |-> <<>>]
    /\ snap = [t \in Threads |-> [s \in SourceNames |-> FALSE]]
    /\ consec = [s \in SourceNames |-> 0]
    /\ revived = [s \in SourceNames |-> FALSE]
    /\ status = NoValue

\* the resolver part when another component is under study
ResolverParked ==
    /\ available = [s \in SourceNames |-> TRUE]
    /\ enabled = [s \in SourceNames |-> TRUE]
    /\ failure_count = [s \in SourceNames |-> 0]
    /\ pc = [t \in Threads |-> "idle"]
    /\ req = [t \in Threads |-> NoValue]
    /\ active_sources = [t \in Threads |-> <<>>]
    /\ idx = [t \in Threads |-> 0]
    /\ tmp = [t \in Threads |-> 0]
    /\ ret = [t \in Threads |-> NoValue]
    /\ calls = [t \in Threads |-> <<>>]
    /\ snap = [t \in Threads |-> [s \in SourceNames |-> FALSE]]
    /\ consec = [s \in SourceNames |-> 0]
    /\ revived = [s \in SourceNames |-> FALSE]
    /\ status = NoValue

(***************************************************************************)
(* fetch_with_fallback, one step per statement that reads or writes the    *)
(* shared fields of a source.                                              *)
(***************************************************************************)
CurrentSource(t) == active_sources[t][idx[t]]

\* the for loop of fetch_with_fallback after try_fetch returned None:
\* next source, or the mock data once the list is exhausted (:70-72)
Advance(t) ==
    IF idx[t] < Len(active_sources[t])
    THEN /\ idx' = [idx EXCEPT ![t] = idx[t] + 1]
         /\ pc' = [pc EXCEPT ![t] = "try_fetch"]
         /\ ret' = ret
    ELSE /\ idx' = idx
         /\ pc' = [pc EXCEPT ![t] = "done"]
         /\ \E d \in MockDrifts, v \in MockVolumes :
                ret' = [ret EXCEPT ![t] = GetMockData(req[t].symbol, req[t].market, d, v)]

\* fallback_manager.py:53-60
FetchWithFallback(t, symbol, market) ==
    /\ pc[t] = "idle"
    /\ req' = [req EXCEPT ![t] = [symbol |-> symbol, market |-> market]]
    /\ active_sources' = [active_sources EXCEPT ![t] = ActiveSources(enabled)]
    /\ snap' = [snap EXCEPT ![t] = enabled]
    /\ calls' = [calls EXCEPT ![t] = <<>>]
    /\ IF ActiveSources(enabled) = <<>>
       THEN /\ pc' = [pc EXCEPT ![t] = "done"]
            /\ idx' = idx
            /\ \E d \in MockDrifts, v \in MockVolumes :
                   ret' = [ret EXCEPT ![t] = GetMockData(symbol, market, d, v)]
       ELSE /\ pc' = [pc EXCEPT ![t] = "try_fetch"]
            /\ idx' = [idx EXCEPT ![t] = 1]
            /\ ret' = [ret EXCEPT ![t] = NoValue]
    /\ UNCHANGED <<available, enabled, failure_count, tmp, consec>>
    /\ UNCHANGED revived
    /\ status' = NoValue
    /\ UNCHANGED <<dispatchVars, ensembleVars, pipelineVars>>

\* a try_fetch without the market guard
SkipsDisabledOnly(s, market, en) == ~en[s]

\* the two guards of try_fetch (base.py:71-77)
Skips(s, market, en) == ~en[s] \/ ~SupportsMarket(s, market)

\* try_fetch up to the call of fetch_realtime (base.py:71-80)
TryFetch(t) ==
    /\ pc[t] = "try_fetch"
    /\ IF Skips(CurrentSource(t), req[t].market, enabled)
       THEN Advance(t)
       ELSE /\ pc' = [pc EXCEPT ![t] = "fetch_realtime"]
            /\ UNCHANGED <<idx, ret>>
    /\ UNCHANGED <<available, enabled, failure_count, req, active_sources, tmp,
                   calls, snap, consec>>
    /\ UNCHANGED revived
    /\ status' = NoValue
    /\ UNCHANGED <<dispatchVars, ensembleVars, pipelineVars>>

\* a success that leaves the count as it is
CountAfterSuccessKept(count) == count

\* `self.failure_count = 0` (base.py:85)
CountAfterSuccess(count) == 0

\* try_fetch, the call of fetch_realtime and what follows it (base.py:79-96)
FetchRealtime(t) ==
    /\ pc[t] = "fetch_realtime"
    /\ \E o \in Outcomes(CurrentSource(t), available) :
        /\ calls' = [calls EXCEPT ![t] = Append(calls[t],
                        [src |-> CurrentSource(t), data |-> o.data,
                         out |-> IF Truthy(o) THEN "ok"
                                 ELSE IF o.out = "raise" THEN "raise" ELSE "null"])]
        /\ IF Truthy(o)
           THEN /\ failure_count' = [failure_count EXCEPT ![CurrentSource(t)] =
                                        CountAfterSuccess(failure_count[CurrentSource(t)])]
                /\ consec' = [consec EXCEPT ![CurrentSource(t)] = 0]
                /\ ret' = [ret EXCEPT ![t] = o.data]
                /\ pc' = [pc EXCEPT ![t] = "done"]
           ELSE IF o.out = "raise" /\ ~TryFetchCatches(o)
           THEN /\ pc' = [pc EXCEPT ![t] = "raised"]
                /\ consec' = [consec EXCEPT ![CurrentSource(t)] = consec[CurrentSource(t)] + 1]
                /\ UNCHANGED <<failure_count, ret>>
           ELSE /\ pc' = [pc EXCEPT ![t] = "record_load"]
                /\ consec' = [consec EXCEPT ![CurrentSource(t)] = consec[CurrentSource(t)] + 1]
                /\ UNCHANGED <<failure_count, ret>>
    /\ UNCHANGED <<available, enabled, req, active_sources, idx, tmp, snap>>
    /\ UNCHANGED revived
    /\ status' = NoValue
    /\ UNCHANGED <<dispatchVars, ensembleVars, pipelineVars>>

\* _record_failure: `self.failure_count += 1` reads ... (base.py:100)
RecordFailureLoad(t) ==
    /\ pc[t] = "record_load"
    /\ tmp' = [tmp EXCEPT ![t] = failure_count[CurrentSource(t)]]
    /\ pc' = [pc EXCEPT ![t] = "record_store"]
    /\ UNCHANGED <<available, enabled, failure_count, req, active_sources, idx,
                   ret, calls, snap, consec>>
    /\ UNCHANGED revived
    /\ status' = NoValue
    /\ UNCHANGED <<dispatchVars, ensembleVars, pipelineVars>>

\* ... and writes back (base.py:100)
RecordFailureStore(t) ==
    /\ pc[t] = "record_store"
    /\ failure_count' = [failure_count EXCEPT ![CurrentSource(t)] = tmp[t] + 1]
    /\ pc' = [pc EXCEPT ![t] = "record_check"]
    /\ UNCHANGED <<available, enabled, req, active_sources, idx, tmp, ret, calls,
                   snap, consec>>
    /\ UNCHANGED revived
    /\ status' = NoValue
    /\ UNCHANGED <<dispatchVars, ensembleVars, pipelineVars>>

\* the threshold test written with > instead of >=
ReachedMaxFailuresStrict(count) == count > max_failures

\* a threshold test that is one failure early
ReachedMaxFailuresEarly(count) == count >= max_failures - 1

\* the threshold of _record_failure (base.py:102)
ReachedMaxFailures(count) == count >= max_failures

\* _record_failure, the threshold test (base.py:102-106), then the loop goes on
RecordFailureCheck(t) ==
    /\ pc[t] = "record_check"
    /\ enabled' = IF ReachedMaxFailures(failure_count[CurrentSource(t)])
                  THEN [enabled EXCEPT ![CurrentSource(t)] = FALSE]
                  ELSE enabled
    /\ Advance(t)
    /\ UNCHANGED <<available, failure_count, req, active_sources, tmp, calls,
                   snap, consec>>
    /\ UNCHANGED revived
    /\ status' = NoValue
    /\ UNCHANGED <<dispatchVars, ensembleVars, pipelineVars>>

\* the caller takes the returned payload; the locals of the call are gone
Return(t) ==
    /\ pc[t] = "done"
    /\ pc' = [pc EXCEPT ![t] = "idle"]
    /\ req' = [req EXCEPT ![t] = NoValue]
    /\ active_sources' = [active_sources EXCEPT ![t] = <<>>]
    /\ idx' = [idx EXCEPT ![t] = 0]
    /\ tmp' = [tmp EXCEPT ![t] = 0]
    /\ ret' = [ret EXCEPT ![t] = NoValue]
    /\ calls' = [calls EXCEPT ![t] = <<>>]
    /\ snap' = [snap EXCEPT ![t] = [s \in SourceNames |-> FALSE]]
    /\ revived' = [s \in SourceNames |-> FALSE]
    /\ status' = NoValue
    /\ UNCHANGED <<available, enabled, failure_count, consec>>
    /\ UNCHANGED <<dispatchVars, ensembleVars, pipelineVars>>

\* the breaker has disabled source s
Tripped(s) == ~enabled[s] /\ failure_count[s] >= max_failures

\* a reset that clears the count and leaves the flag
ResetCountOnly(s) ==
    /\ failure_count' = [failure_count EXCEPT ![s] = 0]
    /\ consec' = [consec EXCEPT ![s] = 0]
    /\ revived' = [revived EXCEPT ![s] = revived[s] \/ Tripped(s)]
    /\ status' = NoValue
    /\ UNCHANGED <<available, enabled, pc, req, active_sources, idx, tmp, ret,
                   calls, snap>>
    /\ UNCHANGED <<dispatchVars, ensembleVars, pipelineVars>>

\* DataSource.reset (base.py:108-112)
Reset(s) ==
    /\ failure_count' = [failure_count EXCEPT ![s] = 0]
    /\ enabled' = [enabled EXCEPT ![s] = TRUE]
    /\ consec' = [consec EXCEPT ![s] = 0]
    /\ revived' = [revived EXCEPT ![s] = revived[s] \/ Tripped(s)]
    /\ status' = NoValue
    /\ UNCHANGED <<available, pc, req, active_sources, idx, tmp, ret, calls, snap>>
    /\ UNCHANGED <<dispatchVars, ensembleVars, pipelineVars>>

\* FallbackManager.reset_all_sources (fallback_manager.py:109-113)
ResetAllSources ==
    /\ failure_count' = [s \in SourceNames |-> 0]
    /\ enabled' = [s \in SourceNames |-> TRUE]
    /\ consec' = [s \in SourceNames |-> 0]
    /\ revived' = [s \in SourceNames |-> revived[s] \/ Tripped(s)]
    /\ status' = NoValue
    /\ UNCHANGED <<available, pc, req, active_sources, idx, tmp, ret, calls, snap>>
    /\ UNCHANGED <<dispatchVars, ensembleVars, pipelineVars>>

\* the entry get_status builds for one source
StatusEntry(s, en, count) ==
    [enabled |-> en[s], priority |-> Priority(s), failure_count |-> count[s]]

\* a status that lists the enabled sources only
StatusOfActive(srcs, en, count) ==
    [kind |-> "dict",
     value |-> [s \in Range(ActiveSources(en)) |-> StatusEntry(s, en, count)]]

\* the dict comprehension of get_status (fallback_manager.py:122-129)
StatusOf(srcs, en, count) ==
    [kind |-> "dict", value |-> [s \in Range(srcs) |-> StatusEntry(s, en, count)]]

\* FallbackManager.get_status (fallback_manager.py:115-129), called from the
\* event loop at any moment of a resolution
GetStatus ==
    /\ status' = StatusOf(sources, enabled, failure_count)
    /\ UNCHANGED <<available, enabled, failure_count, pc, req, active_sources,
                   idx, tmp, ret, calls, snap, consec, revived>>
    /\ UNCHANGED <<dispatchVars, ensembleVars, pipelineVars>>

(* Resolutions one at a time: a call starts, and a reset happens, only     *)
(* while no other call is running.                                         *)
StartSequential ==
    /\ Quiescent
    /\ \E symbol \in Symbols, market \in Markets :
           FetchWithFallback(MainThread, symbol, market)

ResetOne == Quiescent /\ \E s \in SourceNames : Reset(s)

ResetAll == Quiescent /\ ResetAllSources

(* Resolutions in parallel: RealtimeDataCollector.fetch hands every call to *)
(* a worker of the default thread pool (realtime.py:33-39), and the         *)
(* ranking service gathers one fetch per listed stock                       *)
(* (ranking_service.py:61-66); the sources are shared and nothing locks     *)
(* them.  Every stock the ranking service lists is a Korean one             *)
(* (ranking_service.py:28-41).                                              *)
RankingMarkets == {"kosdaq"}

NextConcurrent ==
    \/ \E t \in Threads, symbol \in Symbols, market \in RankingMarkets :
           FetchWithFallback(t, symbol, market)
    \/ \E t \in Threads : TryFetch(t)
    \/ \E t \in Threads : FetchRealtime(t)
    \/ \E t \in Threads : RecordFailureLoad(t)
    \/ \E t \in Threads : RecordFailureStore(t)
    \/ \E t \in Threads : RecordFailureCheck(t)
    \/ \E t \in Threads : Return(t)

NextResolver ==
    \/ StartSequential
    \/ TryFetch(MainThread)
    \/ FetchRealtime(MainThread)
    \/ RecordFailureLoad(MainThread)
    \/ RecordFailureStore(MainThread)
    \/ RecordFailureCheck(MainThread)
    \/ Return(MainThread)
    \/ ResetOne
    \/ ResetAll
    \/ GetStatus

(***************************************************************************)
(*                    CLAIMS ABOUT THE FALLBACK CHAIN                      *)
(***************************************************************************)
\* the sources a call may try: enabled when it began, and supporting its market
Eligible(t) ==
    {s \in SourceNames : snap[t][s] /\ SupportsMarket(s, req[t].market)}

Called(t) == {calls[t][i].src : i \in DOMAIN calls[t]}

NoSuccess(t) == \A i \in DOMAIN calls[t] : calls[t][i].out # "ok"

\* the step invokes fetch_realtime of source s
Invokes(s) ==
    \E t \in Threads :
        /\ Len(calls'[t]) = Len(calls[t]) + 1
        /\ calls'[t][Len(calls'[t])].src = s

(* C1: within one call of fetch_with_fallback the fetch operations are      *)
(* invoked in strictly ascending priority, only on sources that were        *)
(* enabled and support the market, none of them skipped; nothing is         *)
(* invoked after a source returned a non-empty payload, and the call        *)
(* returns the payload of that first successful source.                    *)
C1_PriorityOrderFirstSuccess ==
    \A t \in Threads :
        /\ \A i, j \in DOMAIN calls[t] :
               i < j => /\ Priority(calls[t][i].src) < Priority(calls[t][j].src)
                        /\ calls[t][i].out # "ok"
        /\ pc[t] # "idle" => Called(t) \subseteq Eligible(t)
        /\ pc[t] = "done" =>
               /\ \A s \in Eligible(t) :
                      \/ s \in Called(t)
                      \/ \E i \in DOMAIN calls[t] :
                             /\ calls[t][i].out = "ok"
                             /\ Priority(calls[t][i].src) < Priority(s)
               /\ \A i \in DOMAIN calls[t] :
                      calls[t][i].out = "ok" =>
                          /\ ret[t] = calls[t][i].data
                          /\ ret[t] \in SourcePayloads

\* a call that returned the payload of its second try and left a later
\* eligible source untried
C1_Witness ==
    \E t \in Threads :
        /\ pc[t] = "done"
        /\ Len(calls[t]) >= 2
        /\ calls[t][Len(calls[t])].out = "ok"
        /\ ret[t] = calls[t][Len(calls[t])].data
        /\ Eligible(t) \ Called(t) # {}

\* some thread is between the failed fetch of s and the end of _record_failure
Recording(s) ==
    \E t \in Threads :
        /\ pc[t] \in {"record_load", "record_store", "record_check"}
        /\ CurrentSource(t) = s

(* C2: a source whose fetch failed max_failures times in a row is disabled  *)
(* (once _record_failure has run); while a source is disabled no step       *)
(* invokes its fetch; and a disabled source becomes enabled again only by   *)
(* reset() or reset_all_sources().                                         *)
C2_BreakerTripsAndHolds ==
    /\ [](\A s \in SourceNames :
             (consec[s] >= max_failures /\ ~Recording(s)) => ~enabled[s])
    /\ [][\A s \in SourceNames :
             /\ ~enabled[s] => ~Invokes(s)
             /\ (~enabled[s] /\ enabled'[s]) => (Reset(s) \/ ResetAllSources)]_vars

\* a later call finished without trying a source that three failures in a
\* row had disabled, although the source supports the market
C2_Witness ==
    \E t \in Threads, s \in SourceNames :
        /\ pc[t] = "done"
        /\ consec[s] >= max_failures
        /\ ~enabled[s]
        /\ ~snap[t][s]
        /\ SupportsMarket(s, req[t].market)
        /\ s \notin Called(t)

HasSyntheticMarker(d) == "synthetic" \in DOMAIN d /\ d["synthetic"] = TRUE

(* C6: the payload returned when no source succeeded carries                *)
(* synthetic = TRUE, and a payload obtained from a source does not.        *)
C6_SyntheticMarker ==
    \A t \in Threads :
        pc[t] = "done" =>
            IF NoSuccess(t)
            THEN HasSyntheticMarker(ret[t])
            ELSE ~HasSyntheticMarker(ret[t])

(* C13 as the specification states it: a source is disabled only when its  *)
(* failure count has reached the threshold.                                *)
C13_DisabledOnlyByBreaker ==
    \A s \in SourceNames : ~enabled[s] => failure_count[s] >= max_failures

(* C13: a source is disabled only when its failure count has reached the   *)
(* threshold, or when it was created disabled, its library or API key       *)
(* missing, and has not been tried since (its failure count is 0).         *)
C13_DisabledByBreakerOrAtCreation ==
    \A s \in SourceNames :
        ~enabled[s] =>
            \/ failure_count[s] >= max_failures
            \/ ~available[s] /\ failure_count[s] = 0

\* after a call: one source disabled since its creation, another by the breaker
C13_Witness ==
    /\ pc[MainThread] = "done"
    /\ \E s, u \in SourceNames :
           /\ ~available[s] /\ ~enabled[s] /\ failure_count[s] = 0
           /\ available[u] /\ ~enabled[u] /\ failure_count[u] = max_failures

\* thread t is inside _record_failure of source s, between the failed
\* invocation and the write of the incremented count
Incrementing(t, s) ==
    /\ pc[t] \in {"record_load", "record_store"}
    /\ CurrentSource(t) = s

(* C14: with resolutions one at a time, the failure count of a source is    *)
(* the number of its failed invocations (null payload or raised error)      *)
(* since its last success or reset, and it never exceeds the threshold.     *)
C14_CountIsConsecutiveFailures ==
    \A s \in SourceNames :
        /\ failure_count[s] <= max_failures
        /\ ~Incrementing(MainThread, s) => failure_count[s] = consec[s]

\* a call in which a source failed for the second time in a row and the
\* next source answered, its count being 0
C14_Witness ==
    /\ pc[MainThread] = "done"
    /\ Len(calls[MainThread]) = 2
    /\ calls[MainThread][1].out # "ok"
    /\ failure_count[calls[MainThread][1].src] = 2
    /\ calls[MainThread][2].out = "ok"
    /\ failure_count[calls[MainThread][2].src] = 0

\* in the running call of thread t, source s is to be left alone: it was
\* disabled when the call began, or it does not support the market, or a
\* source before it has answered
LeftAlone(t, s) ==
    \/ ~snap[t][s]
    \/ ~SupportsMarket(s, req[t].market)
    \/ \E i \in DOMAIN calls[t] :
           calls[t][i].out = "ok" /\ Priority(calls[t][i].src) < Priority(s)

\* what C15 says of the states of a call
C15_NotInvoked ==
    \A t \in Threads :
        pc[t] # "idle" =>
            /\ \A s \in SourceNames : LeftAlone(t, s) => s \notin Called(t)
            /\ \A i, j \in DOMAIN calls[t] :
                   calls[t][i].src = calls[t][j].src => i = j

\* what C15 says of the steps of a call: a step changes the flag or the
\* count of invoked sources only, never of one that is to be left alone
C15_Untouched ==
    \A s \in SourceNames :
        (pc[MainThread] # "idle"
             /\ (enabled'[s] # enabled[s] \/ failure_count'[s] # failure_count[s]))
            => /\ \E i \in DOMAIN calls'[MainThread] : calls'[MainThread][i].src = s
               /\ ~LeftAlone(MainThread, s)

(* C15: within one call of fetch_with_fallback, a source that is disabled   *)
(* or does not support the market, and every source after the first         *)
(* successful one, is not invoked and keeps its enabled flag and its         *)
(* failure count; every other source is invoked at most once.               *)
C15_SkippedSourcesUntouched == []C15_NotInvoked /\ [][C15_Untouched]_vars

\* a call for a Korean market in which the first source failed, the second
\* answered, the third was not reached and the fourth does not support it
C15_Witness ==
    /\ pc[MainThread] = "done"
    /\ req[MainThread].market = "kosdaq"
    /\ Len(calls[MainThread]) = 2
    /\ calls[MainThread][1].src = "YahooFinance"
    /\ calls[MainThread][2].src = "FinanceDataReader"
    /\ calls[MainThread][2].out = "ok"
    /\ snap[MainThread]["PyKrx"] /\ snap[MainThread]["AlphaVantage"]
    /\ failure_count["YahooFinance"] = 1

\* the steps of reset() and reset_all_sources() end with the flag set and
\* the count 0
C16_ResetStep ==
    /\ \A s \in SourceNames :
           Reset(s) => enabled'[s] /\ failure_count'[s] = 0
    /\ ResetAllSources =>
           \A s \in SourceNames : enabled'[s] /\ failure_count'[s] = 0

\* a source reset after the breaker disabled it is enabled with count 0
\* until the next call begins, and that call invokes it if it supports the
\* market and no source before it answered
C16_TriedAgain ==
    \A s \in SourceNames :
        revived[s] =>
            /\ pc[MainThread] = "idle" => enabled[s] /\ failure_count[s] = 0
            /\ (/\ pc[MainThread] = "done"
                /\ SupportsMarket(s, req[MainThread].market)
                /\ \A i \in DOMAIN calls[MainThread] :
                       calls[MainThread][i].out = "ok"
                           => Priority(calls[MainThread][i].src) >= Priority(s))
                   => s \in Called(MainThread)

(* C16: after reset() of a source, and after reset_all_sources() for every  *)
(* source, the enabled flag is true and the failure count is 0, whatever    *)
(* they were; a source the breaker had disabled is tried again by the next  *)
(* call.                                                                    *)
C16_ResetEnables == []C16_TriedAgain /\ [][C16_ResetStep]_vars

\* the first source, disabled by the breaker and then reset, answers the
\* next call
C16_Witness ==
    /\ pc[MainThread] = "done"
    /\ revived["YahooFinance"]
    /\ Len(calls[MainThread]) = 1
    /\ calls[MainThread][1].src = "YahooFinance"
    /\ calls[MainThread][1].out = "ok"

(* C17: reset() gives the enabled flag and the failure count of a source    *)
(* the values they had when the source was created.                         *)
C17_ResetRestoresInitialValues ==
    [][\A s \in SourceNames :
           Reset(s) => /\ enabled'[s] = InitialEnabled(s, available)
                       /\ failure_count'[s] = 0]_vars

\* the value get_status returned in the step that led here
C29_StatusIsCurrent ==
    status # NoValue =>
        /\ DOMAIN status.value = SourceNames
        /\ \A s \in SourceNames :
               /\ DOMAIN status.value[s] = {"enabled", "priority", "failure_count"}
               /\ status.value[s].enabled = enabled[s]
               /\ status.value[s].priority = Priority(s)
               /\ status.value[s].failure_count = failure_count[s]

\* a step that returns a status changes no source
C29_StatusStep ==
    status' # NoValue =>
        /\ enabled' = enabled
        /\ failure_count' = failure_count
        /\ available' = available

(* C29: get_status returns one entry per registered source, under the       *)
(* source's name, with the source's enabled flag, priority and failure      *)
(* count as they are at the time of the call, and changes no source.        *)
C29_StatusReportsSources == []C29_StatusIsCurrent /\ [][C29_StatusStep]_vars

\* a status taken in the middle of a call, after the breaker had disabled
\* the first source and while the second one has failed once
C29_Witness ==
    /\ status # NoValue
    /\ pc[MainThread] = "try_fetch"
    /\ ~status.value["YahooFinance"].enabled
    /\ status.value["YahooFinance"].failure_count = max_failures
    /\ status.value["FinanceDataReader"].enabled
    /\ status.value["FinanceDataReader"].failure_count = 1

(* C28: two calls for the same (symbol, market) in which no source          *)
(* succeeded return the same payload.                                       *)
C28_SyntheticPayloadDeterministic ==
    \A t, u \in Threads :
        (/\ pc[t] = "done" /\ pc[u] = "done"
         /\ req[t] = req[u]
         /\ NoSuccess(t) /\ NoSuccess(u))
            => ret[t] = ret[u]

\* the count of a source that started enabled never exceeds the threshold
C30_CountBounded ==
    \A s \in SourceNames :
        InitialEnabled(s, available) => failure_count[s] <= max_failures

\* a disabled source that started enabled has a count at the threshold
C30_DisabledAtThreshold ==
    \A s \in SourceNames :
        InitialEnabled(s, available) /\ ~enabled[s]
            => failure_count[s] >= max_failures

\* once every call has returned, the count is not behind the number of
\* failed invocations since the last success
C30_NoIncrementLost ==
    Quiescent =>
        \A s \in SourceNames :
            InitialEnabled(s, available) => failure_count[s] >= consec[s]

(* C30: in every state that concurrent calls of fetch_with_fallback can     *)
(* reach, a source that started enabled has failure_count <= max_failures,  *)
(* is disabled only with failure_count >= max_failures, and has lost no     *)
(* increment of its count.                                                  *)
C30_ConcurrentBreakerInvariant ==
    C30_CountBounded /\ C30_DisabledAtThreshold /\ C30_NoIncrementLost

(***************************************************************************)
(*                            AI DISPATCH                                  *)
(***************************************************************************)
\* the keys _init_predictors can register (predictor.py:34-68)
PredictorKeys == {"GPT", "Gemini", "Claude", "Ollama"}

\* the five dispatch tests of predict_all, in source order (predictor.py:87-110):
\* model name, key looked up in self.predictors, key looked up in prompts
DispatchTable ==
    << [name |-> "GPT-5.2",    predictor |-> "GPT",    prompt |-> "gpt"],
       [name |-> "Gemini 3.0", predictor |-> "Gemini", prompt |-> "gemini"],
       [name |-> "Claude 4.5", predictor |-> "Claude", prompt |-> "claude"],
       [name |-> "Gemma",      predictor |-> "Ollama", prompt |-> "gemma"],
       [name |-> "Qwen",       predictor |-> "Ollama", prompt |-> "qwen"] >>

ModelNameSet == {DispatchTable[i].name : i \in DOMAIN DispatchTable}
PromptKeys == {DispatchTable[i].prompt : i \in DOMAIN DispatchTable}

\* a test that looks at the registered predictors only
DispatchesRegistered(e, registered, ps) == e.predictor \in registered

\* one dispatch test: `if "GPT" in self.predictors and "gpt" in prompts`
Dispatches(e, registered, ps) == e.predictor \in registered /\ e.prompt \in ps

\* the list model_names that predict_all builds
RECURSIVE BuildModelNames(_, _, _)
BuildModelNames(table, registered, ps) ==
    IF table = <<>> THEN <<>>
    ELSE IF Dispatches(Head(table), registered, ps)
         THEN <<Head(table).name>> \o BuildModelNames(Tail(table), registered, ps)
         ELSE BuildModelNames(Tail(table), registered, ps)

\* the per-call timeout in ticks of the model's clock
TimeoutTicks == 2

\* tasks run one after the other: each timer starts when the task before
\* it has used up its own
DeadlineSequential(m, names) ==
    TimeoutTicks * (CHOOSE i \in DOMAIN names : names[i] = m)

\* the clock value at which the timer of task m fires: every task is created
\* before the gather starts (predictor.py:87-117), and each one wraps its
\* predictor in asyncio.wait_for(..., timeout=self.timeout) (predictor.py:159)
Deadline(m, names) == TimeoutTicks

\* the dict a predictor returns on success
Response(m) == [kind |-> "dict", model |-> m, content |-> "json", success |-> TRUE]

\* what one predictor call can do
TaskOutcomes == {"responded", "none", "raised", "timeout"}

\* a _safe_predict that loses the value it awaited
SafePredictDropsResult(m, o) == None

\* _safe_predict (predictor.py:158-171): the awaited value, or None after a
\* timeout or an exception
SafePredict(m, o) == IF o = "responded" THEN Response(m) ELSE None

\* the result loop of predict_all (predictor.py:121-130)
Collect(result) ==
    IF result = ExceptionValue THEN None
    ELSE IF result = None THEN None
    ELSE result

\* wait-for-first instead of wait-for-all
AnySettled(names, tasks) == \E m \in Range(names) : tasks[m] # "pending"

\* `await asyncio.gather(*tasks, return_exceptions=True)` (predictor.py:117)
\* resumes when every task is done
AllSettled(names, tasks) == \A m \in Range(names) : tasks[m] # "pending"

DispatchInit ==
    /\ predictors \in SUBSET PredictorKeys
    /\ dpc = "idle"
    /\ prompts = {}
    /\ model_names = <<>>
    /\ task = [m \in ModelNameSet |-> "absent"]
    /\ results = [m \in ModelNameSet |-> NoValue]
    /\ late = [m \in ModelNameSet |-> FALSE]
    /\ clock = 0
    /\ predictions = NoValue

DispatchParked ==
    /\ predictors = {}
    /\ dpc = "idle"
    /\ prompts = {}
    /\ model_names = <<>>
    /\ task = [m \in ModelNameSet |-> "absent"]
    /\ results = [m \in ModelNameSet |-> NoValue]
    /\ late = [m \in ModelNameSet |-> FALSE]
    /\ clock = 0
    /\ predictions = NoValue

\* predict_all up to the gather (predictor.py:82-117)
PredictAll(ps) ==
    /\ dpc = "idle"
    /\ prompts' = ps
    /\ model_names' = BuildModelNames(DispatchTable, predictors, ps)
    /\ task' = [m \in ModelNameSet |->
                   IF m \in Range(model_names') THEN "pending" ELSE "absent"]
    /\ results' = [m \in ModelNameSet |-> NoValue]
    /\ late' = [m \in ModelNameSet |-> FALSE]
    /\ clock' = 0
    /\ IF model_names' = <<>>
       THEN dpc' = "returned" /\ predictions' = <<>>
       ELSE dpc' = "gather" /\ predictions' = NoValue
    /\ UNCHANGED predictors
    /\ UNCHANGED <<resolverVars, ensembleVars, pipelineVars>>

\* one task of the gather ends: its predictor answered, returned None or
\* raised before the timeout (predictor.py:159-171)
Settle(m, o) ==
    /\ dpc = "gather"
    /\ task[m] = "pending"
    /\ o \in TaskOutcomes \ {"timeout"}
    /\ task' = [task EXCEPT ![m] = o]
    /\ results' = [results EXCEPT ![m] = SafePredict(m, o)]
    /\ UNCHANGED <<predictors, dpc, prompts, model_names, late, clock, predictions>>
    /\ UNCHANGED <<resolverVars, ensembleVars, pipelineVars>>

\* the timer of asyncio.wait_for fires for one task (predictor.py:159-167)
Timeout(m) ==
    /\ dpc = "gather"
    /\ task[m] = "pending"
    /\ clock = Deadline(m, model_names)
    /\ task' = [task EXCEPT ![m] = "timeout"]
    /\ results' = [results EXCEPT ![m] = SafePredict(m, "timeout")]
    /\ UNCHANGED <<predictors, dpc, prompts, model_names, late, clock, predictions>>
    /\ UNCHANGED <<resolverVars, ensembleVars, pipelineVars>>

\* time passes while a task is pending; no timer is overdue
Tick ==
    /\ dpc = "gather"
    /\ \E m \in Range(model_names) : task[m] = "pending"
    /\ \A m \in Range(model_names) :
           task[m] = "pending" => clock < Deadline(m, model_names)
    /\ clock' = clock + 1
    /\ UNCHANGED <<predictors, dpc, prompts, model_names, task, results, late,
                   predictions>>
    /\ UNCHANGED <<resolverVars, ensembleVars, pipelineVars>>

\* a late answer that is stored like one that came in time
LateResponseWritten(m) ==
    /\ task[m] = "timeout"
    /\ ~late[m]
    /\ late' = [late EXCEPT ![m] = TRUE]
    /\ results' = [results EXCEPT ![m] = Response(m)]
    /\ predictions' = IF dpc = "returned"
                      THEN [predictions EXCEPT ![m] = Response(m)]
                      ELSE predictions
    /\ UNCHANGED <<predictors, dpc, prompts, model_names, task, clock>>
    /\ UNCHANGED <<resolverVars, ensembleVars, pipelineVars>>

\* the service answers a request whose task already timed out: the cancelled
\* coroutine is gone and nothing reads the answer
LateResponse(m) ==
    /\ task[m] = "timeout"
    /\ ~late[m]
    /\ late' = [late EXCEPT ![m] = TRUE]
    /\ UNCHANGED <<predictors, dpc, prompts, model_names, task, results, clock,
                   predictions>>
    /\ UNCHANGED <<resolverVars, ensembleVars, pipelineVars>>

\* the gather resumes and predict_all builds its result (predictor.py:117-139)
Gather ==
    /\ dpc = "gather"
    /\ AllSettled(model_names, task)
    /\ predictions' = [m \in Range(model_names) |-> Collect(results[m])]
    /\ dpc' = "returned"
    /\ UNCHANGED <<predictors, prompts, model_names, task, results, late, clock>>
    /\ UNCHANGED <<resolverVars, ensembleVars, pipelineVars>>

\* the caller takes the result; the next call starts from scratch
TakeResult ==
    /\ dpc = "returned"
    /\ dpc' = "idle"
    /\ prompts' = {}
    /\ model_names' = <<>>
    /\ task' = [m \in ModelNameSet |-> "absent"]
    /\ results' = [m \in ModelNameSet |-> NoValue]
    /\ late' = [m \in ModelNameSet |-> FALSE]
    /\ clock' = 0
    /\ predictions' = NoValue
    /\ UNCHANGED predictors
    /\ UNCHANGED <<resolverVars, ensembleVars, pipelineVars>>

NextDispatch ==
    \/ \E ps \in SUBSET PromptKeys : PredictAll(ps)
    \/ \E m \in ModelNameSet, o \in TaskOutcomes : Settle(m, o)
    \/ \E m \in ModelNameSet : Timeout(m)
    \/ Tick
    \/ \E m \in ModelNameSet : LateResponse(m)
    \/ Gather
    \/ TakeResult

(***************************************************************************)
(*                     CLAIMS ABOUT THE AI DISPATCH                        *)
(***************************************************************************)
Dispatched == Range(model_names)

(* C3: predict_all never fails, and in its result the entry of every        *)
(* dispatched model is decided by that model's own outcome alone: its       *)
(* response if it answered, None if it timed out, raised or returned None;  *)
(* a task that times out or raises changes no other task.                  *)
C3_FailureIsolation ==
    /\ [](/\ dpc \in {"idle", "gather", "returned"}
          /\ dpc = "returned" =>
                 /\ DOMAIN predictions = Dispatched
                 /\ \A m \in Dispatched :
                        predictions[m] = IF task[m] = "responded"
                                         THEN Response(m) ELSE None)
    /\ [][\A i \in ModelNameSet :
             (task[i] = "pending" /\ task'[i] \in {"timeout", "raised"}) =>
                 \A j \in ModelNameSet \ {i} :
                     task'[j] = task[j] /\ results'[j] = results[j]]_vars

\* the example of the specification: A answers, B times out, C raises
C3_Witness ==
    /\ dpc = "returned"
    /\ task["GPT-5.2"] = "responded"
    /\ task["Gemini 3.0"] = "timeout"
    /\ task["Claude 4.5"] = "raised"
    /\ predictions["GPT-5.2"] = Response("GPT-5.2")
    /\ predictions["Gemini 3.0"] = None
    /\ predictions["Claude 4.5"] = None

(* C4: whenever predict_all has returned, no dispatched task is pending:   *)
(* the call returns neither on the first success nor on the first failure. *)
C4_ReturnsAfterAllSettled ==
    dpc = "returned" => \A m \in Dispatched : task[m] # "pending"

\* a call that returned after one task had answered at once and another
\* had run into its timeout
C4_Witness ==
    /\ dpc = "returned"
    /\ clock = TimeoutTicks
    /\ \E m, n \in Dispatched : task[m] = "responded" /\ task[n] = "timeout"

\* the names whose predictor is registered and whose prompt is in the request
RegisteredAndPrompted ==
    {DispatchTable[i].name :
        i \in {j \in DOMAIN DispatchTable :
                  /\ DispatchTable[j].predictor \in predictors
                  /\ DispatchTable[j].prompt \in prompts}}

(* C18: predict_all never raises, and the keys of its result are exactly    *)
(* the models whose predictor is registered and whose prompt is in the      *)
(* request; every other model is absent from the result, not None, and a    *)
(* result whose entries are all None is returned like any other.            *)
C18_KeysAreRegisteredAndPrompted ==
    dpc = "returned" =>
        /\ DOMAIN predictions = RegisteredAndPrompted
        /\ \A m \in DOMAIN predictions : predictions[m] \in {None, Response(m)}

\* a returned result with one key, whose entry is None, while a second
\* predictor is registered and has no prompt
C18_Witness ==
    /\ dpc = "returned"
    /\ DOMAIN predictions = {"GPT-5.2"}
    /\ predictions["GPT-5.2"] = None
    /\ "Gemini" \in predictors
    /\ "gemini" \notin prompts

\* a timed-out task holds None, and so does its entry once the call returned
C19_TimedOutIsNone ==
    \A m \in ModelNameSet :
        task[m] = "timeout" =>
            /\ results[m] = None
            /\ dpc = "returned" => predictions[m] = None

\* the step in which a late response arrives writes nothing
C19_LateStep ==
    \A m \in ModelNameSet :
        (~late[m] /\ late'[m]) =>
            results' = results /\ predictions' = predictions

(* C19: the entry of a task that timed out is None in the final result,     *)
(* whether its response arrives before the call returns, after it, or       *)
(* never: the late response is written nowhere.                             *)
C19_LateResponseDiscarded == []C19_TimedOutIsNone /\ [][C19_LateStep]_vars

\* a task timed out, its response arrived before the gather resumed, and
\* the returned entry is None next to the answer of another task
C19_Witness ==
    /\ dpc = "returned"
    /\ task["GPT-5.2"] = "timeout"
    /\ late["GPT-5.2"]
    /\ predictions["GPT-5.2"] = None
    /\ task["Qwen"] = "responded"
    /\ predictions["Qwen"] = Response("Qwen")

(* C20: every dispatched task is settled by the time the clock passes the   *)
(* per-call timeout, so the call returns at a clock value of at most        *)
(* TimeoutTicks however many tasks run, and a call that reached the gather  *)
(* always returns, even if no predictor ever responds.                      *)
C20_ReturnsWithinTimeout ==
    /\ [](dpc \in {"gather", "returned"} => clock <= TimeoutTicks)
    /\ (dpc = "gather" ~> dpc = "returned")

\* five tasks, none of which responded, and the call returned at the timeout
C20_Witness ==
    /\ dpc = "returned"
    /\ clock = TimeoutTicks
    /\ Cardinality(Dispatched) = 5
    /\ \A m \in Dispatched : task[m] = "timeout" /\ ~late[m]

(***************************************************************************)
(*                          ENSEMBLE ENGINE                                *)
(***************************************************************************)
(* The predictions argument is an insertion-ordered dict: a sequence with  *)
(* one entry [success, predictions] per key, in insertion order,            *)
(* predictions being a function from period keys to                         *)
(* [price, reason, sentiment].  Strings the    *)
(* source writes in Hangul are transliterated.  An input price is an        *)
(* integer number of thousandths of a currency unit; the price and std_dev  *)
(* fields of an EnsemblePrediction, which the code rounds to two decimals,  *)
(* are integer numbers of hundredths.                                       *)

\* SentimentType (models/prediction.py:10-14)
SentimentTypes == {"POSITIVE", "NEGATIVE", "NEUTRAL"}

\* SentimentType.<member>.value
SentimentValue(s) ==
    CASE s = "POSITIVE" -> "geungjeong"
      [] s = "NEGATIVE" -> "bujeong"
      [] s = "NEUTRAL" -> "jungnip"

\* a loop that leaves the last period out
ConfiguredPeriodsShort == <<"1d", "1w">>

\* a loop that goes on to a fourth period
ConfiguredPeriodsLong == <<"1d", "1w", "1m", "3m">>

\* the periods calculate_ensemble loops over (engine.py:60)
ConfiguredPeriods == <<"1d", "1w", "1m">>

\* EnsembleEngine.disagreement_threshold, default 0.2, as a fraction
ThresholdNum == 1
ThresholdDen == 5

\* EnsembleEngine.__init__ (engine.py:22-27): the only attribute
EnsembleEngine(num, den) == [disagreement_threshold |-> [num |-> num, den |-> den]]

\* the messages of the three ValueErrors of calculate_ensemble
ErrEmpty == [kind |-> "ValueError", msg |-> "predictions are empty"]
ErrNoValid == [kind |-> "ValueError", msg |-> "no valid predictions"]
ErrNoEnsemble == [kind |-> "ValueError", msg |-> "cannot create an ensemble"]
\* pydantic's error when the built EnsemblePrediction fails a field constraint
ErrValidation == [kind |-> "ValidationError", msg |-> "field constraint"]

\* a filter that looks at the success flag only
IsValidAnySuccess(pred) == pred.success

\* a filter that looks at the opinions only
IsValidAnyOpinions(pred) == DOMAIN pred.predictions # {}

\* the dict comprehension at engine.py:49-52
IsValid(pred) == pred.success /\ DOMAIN pred.predictions # {}

ValidPredictions(preds) == SelectSeq(preds, IsValid)

\* the collection loop at engine.py:89-93
RECURSIVE PeriodPredictions(_, _)
PeriodPredictions(preds, period) ==
    IF preds = <<>> THEN <<>>
    ELSE IF period \in DOMAIN Head(preds).predictions
         THEN <<Head(preds).predictions[period]>>
                  \o PeriodPredictions(Tail(preds), period)
         ELSE PeriodPredictions(Tail(preds), period)

PricesOf(pp) == [i \in DOMAIN pp |-> pp[i].price]
SquaresOf(prices) == [i \in DOMAIN prices |-> prices[i] * prices[i]]

\* truncation to two decimals
RoundHundredthsDown(num, den) == (100 * num) \div den

\* round(num / den, 2) in hundredths, for num >= 0 and den > 0: to the
\* nearest hundredth.  On an exact half the binary value of the float
\* decides; the inputs below produce none, and the half goes to the even
\* neighbour here.
RoundHundredths(num, den) ==
    LET q == (100 * num) \div den
        r == (100 * num) % den
    IN  IF 2 * r < den THEN q
        ELSE IF 2 * r > den THEN q + 1
        ELSE IF q % 2 = 0 THEN q ELSE q + 1

\* the largest r in lo..hi with r = 0 or (2r - 1)^2 <= bound
RECURSIVE LargestHalfStep(_, _, _)
LargestHalfStep(lo, hi, bound) ==
    IF lo >= hi THEN lo
    ELSE LET mid == (lo + hi + 1) \div 2
         IN  IF (2 * mid - 1) * (2 * mid - 1) <= bound
             THEN LargestHalfStep(mid, hi, bound)
             ELSE LargestHalfStep(lo, mid - 1, bound)

(* statistics.stdev(prices) for more than one price is                     *)
(* sqrt(d / (n (n - 1))) with d = n * sum(x^2) - sum(x)^2, here in          *)
(* thousandths.                                                             *)
SampleNumerator(prices) ==
    Len(prices) * SeqSum(SquaresOf(prices)) - SeqSum(prices) * SeqSum(prices)

\* the population standard deviation (denominator n), rounded
RoundedStdDevPopulation(prices) ==
    IF Len(prices) <= 1 THEN 0
    ELSE LET n == Len(prices)
             d == SampleNumerator(prices)
             bound == d \div (25 * n * n)
             r == LargestHalfStep(0, 20000, bound)
             half == r > 0 /\ d % (25 * n * n) = 0
                           /\ (2 * r - 1) * (2 * r - 1) = bound
         IN  IF half /\ r % 2 = 1 THEN r - 1 ELSE r

\* round(std_dev, 2) in hundredths: the nearest integer r to
\* sqrt(d / (n (n - 1))) / 10, that is the largest r with
\* (2r - 1)^2 <= d / (25 n (n - 1)); an exact half as in RoundHundredths
RoundedStdDev(prices) ==
    IF Len(prices) <= 1 THEN 0
    ELSE LET n == Len(prices)
             d == SampleNumerator(prices)
             bound == d \div (25 * n * (n - 1))
             r == LargestHalfStep(0, 20000, bound)
             half == r > 0 /\ d % (25 * n * (n - 1)) = 0
                           /\ (2 * r - 1) * (2 * r - 1) = bound
         IN  IF half /\ r % 2 = 1 THEN r - 1 ELSE r

\* (std_dev / avg_price) > threshold on the unrounded values, avg_price > 0:
\* d n / (n - 1) / sum^2 > (num / den)^2
RatioExceeds(prices, num, den) ==
    LET n == Len(prices)
        sum == SeqSum(prices)
    IN  IF n <= 1 THEN 0 > num
        ELSE SampleNumerator(prices) * n * den * den > num * num * sum * sum * (n - 1)

\* the conditional expression at engine.py:108 and :201
Disagreement(prices, num, den) ==
    IF SeqSum(prices) > 0 THEN RatioExceeds(prices, num, den) ELSE FALSE

\* the elements of s without repetitions, in order of first occurrence:
\* the key order of Counter(s), and the loop at engine.py:157-164
RECURSIVE Distinct(_)
Distinct(s) ==
    IF s = <<>> THEN <<>>
    ELSE LET front == Distinct(SubSeq(s, 1, Len(s) - 1))
         IN  IF s[Len(s)] \in Range(front) THEN front ELSE Append(front, s[Len(s)])

Count(s, x) == Cardinality({i \in DOMAIN s : s[i] = x})

\* max(items, key=count): the first key, in key order, that no later key
\* beats; a later key replaces the best only with a strictly larger count
RECURSIVE FirstMax(_, _, _)
FirstMax(keys, s, best) ==
    IF keys = <<>> THEN best
    ELSE IF Count(s, Head(keys)) > Count(s, best)
         THEN FirstMax(Tail(keys), s, Head(keys))
         ELSE FirstMax(Tail(keys), s, best)

\* a vote won by the value whose running count is the first to reach the
\* maximum count
VoteSentimentFirstToReach(sentiments) ==
    IF sentiments = <<>> THEN "NEUTRAL"
    ELSE LET top == CHOOSE v \in Range(sentiments) :
                        \A w \in Range(sentiments) :
                            Count(sentiments, v) >= Count(sentiments, w)
             reached(i) == Count(SubSeq(sentiments, 1, i), sentiments[i])
                               = Count(sentiments, top)
             first == CHOOSE i \in DOMAIN sentiments :
                          reached(i) /\ \A j \in 1..(i - 1) : ~reached(j)
         IN  sentiments[first]

\* _vote_sentiment (engine.py:126-141): Counter(sentiments).most_common(1)
VoteSentiment(sentiments) ==
    IF sentiments = <<>> THEN "NEUTRAL"
    ELSE LET keys == Distinct(sentiments)
         IN  FirstMax(Tail(keys), sentiments, Head(keys))

RECURSIVE Join(_, _)
Join(parts, sep) ==
    IF parts = <<>> THEN ""
    ELSE IF Len(parts) = 1 THEN parts[1]
    ELSE parts[1] \o sep \o Join(Tail(parts), sep)

\* a consolidation that joins every unique reason
CombineReasonsAll(reasons) ==
    IF reasons = <<>> THEN "overall analysis"
    ELSE Join(Distinct(reasons), " | ")

\* _combine_reasons (engine.py:143-172)
CombineReasons(reasons) ==
    IF reasons = <<>> THEN "overall analysis"
    ELSE LET unique_reasons == Distinct(reasons)
         IN  IF Len(unique_reasons) > 3
             THEN Join(SubSeq(unique_reasons, 1, 3), " | ") \o " oe"
             ELSE Join(unique_reasons, " | ")

(* EnsemblePrediction.validate_disagreement (models/result.py:15-22).  A    *)
(* validator sees in `values` only the fields declared before its own:     *)
(* price, reason and sentiment come from PeriodPrediction, then             *)
(* disagreement, then std_dev, so std_dev is not in `values` yet.          *)
ValidateDisagreement(v, values) ==
    IF "std_dev" \in DOMAIN values /\ "price" \in DOMAIN values
    THEN IF values["std_dev"] * 100 > values["price"] * 20 THEN TRUE ELSE v
    ELSE v

\* EnsemblePrediction(price=..., reason=..., sentiment=..., disagreement=...,
\* std_dev=...): price and std_dev in hundredths
EnsemblePrediction(price, reason, sentiment, disagreement, std_dev) ==
    IF price <= 0 \/ reason = "" \/ std_dev < 0 THEN ErrValidation
    ELSE [kind |-> "EnsemblePrediction",
          price |-> price,
          reason |-> reason,
          sentiment |-> sentiment,
          disagreement |-> ValidateDisagreement(disagreement,
                               [price |-> price, reason |-> reason,
                                sentiment |-> sentiment]),
          std_dev |-> std_dev]

\* _calculate_period_ensemble (engine.py:73-124); None when nothing collected
CalculatePeriodEnsemble(preds, period) ==
    LET period_predictions == PeriodPredictions(preds, period)
        prices == PricesOf(period_predictions)
        sentiments == [i \in DOMAIN period_predictions |->
                          period_predictions[i].sentiment]
        reasons == [i \in DOMAIN period_predictions |-> period_predictions[i].reason]
    IN  IF period_predictions = <<>> THEN None
        ELSE EnsemblePrediction(
                 RoundHundredths(SeqSum(prices), 1000 * Len(prices)),
                 CombineReasons(reasons),
                 VoteSentiment(sentiments),
                 Disagreement(prices, engine.disagreement_threshold.num,
                              engine.disagreement_threshold.den),
                 RoundedStdDev(prices))

\* calculate_ensemble (engine.py:29-71)
CalculateEnsemble(preds) ==
    IF preds = <<>> THEN ErrEmpty
    ELSE LET valid_predictions == ValidPredictions(preds)
             built == [i \in DOMAIN ConfiguredPeriods |->
                          CalculatePeriodEnsemble(valid_predictions,
                                                  ConfiguredPeriods[i])]
             kept == {i \in DOMAIN ConfiguredPeriods : built[i] # None}
             index(p) == CHOOSE i \in kept : ConfiguredPeriods[i] = p
         IN  IF valid_predictions = <<>> THEN ErrNoValid
             ELSE IF \E i \in kept : built[i] = ErrValidation THEN ErrValidation
             ELSE IF kept = {} THEN ErrNoEnsemble
             ELSE [kind |-> "ensemble",
                   value |-> [p \in {ConfiguredPeriods[i] : i \in kept} |->
                                 built[index(p)]]]

\* the filter of detect_disagreement and calculate_consensus
\* (engine.py:191-193, :220-222)
RECURSIVE SuccessfulFor(_, _)
SuccessfulFor(preds, period) ==
    IF preds = <<>> THEN <<>>
    ELSE IF Head(preds).success /\ period \in DOMAIN Head(preds).predictions
         THEN <<Head(preds).predictions[period]>> \o SuccessfulFor(Tail(preds), period)
         ELSE SuccessfulFor(Tail(preds), period)

\* detect_disagreement (engine.py:174-201)
DetectDisagreement(preds, period) ==
    LET prices == PricesOf(SuccessfulFor(preds, period))
    IN  IF Len(prices) < 2 THEN FALSE
        ELSE Disagreement(prices, engine.disagreement_threshold.num,
                          engine.disagreement_threshold.den)

\* a consensus that also counts the opinions of failed entries
CalculateConsensusAll(preds, period) ==
    LET collected == PeriodPredictions(preds, period)
        sentiments == [i \in DOMAIN collected |-> collected[i].sentiment]
    IN  IF sentiments = <<>> THEN SentimentValue("NEUTRAL")
        ELSE SentimentValue(VoteSentiment(sentiments))

\* calculate_consensus (engine.py:203-228)
CalculateConsensus(preds, period) ==
    LET collected == SuccessfulFor(preds, period)
        sentiments == [i \in DOMAIN collected |-> collected[i].sentiment]
    IN  IF sentiments = <<>> THEN SentimentValue("NEUTRAL")
        ELSE SentimentValue(VoteSentiment(sentiments))

(* Inputs.  Three families, each varying one aspect of the argument:        *)
(*   structure: which entries succeeded and which periods each one has,     *)
(*   votes:     the sentiments of up to MaxVoters entries for "1d",         *)
(*   prices:    the prices of up to MaxPricers entries for "1d", among      *)
(*              them 0.004, whose mean rounds to 0.00,                      *)
(*   mixed:     valid, failed and empty entries whose opinions for "1d"     *)
(*              differ in price, sentiment and reason,                      *)
(*   reasons:   the reasons of up to MaxReasoners entries for "1d".         *)
MaxStructModels == 2
MaxVoters == 4
MaxPricers == 3
MaxMixed == 3
MaxReasoners == 5

InputPeriods == {"1d", "1w", "1m", "3m"}
InputPrices == {4, 244, 324, 1004, 1504}
QueryPeriods == {"1d", "1y"}

Opinion(price, sentiment) == [price |-> price, reason |-> "r1", sentiment |-> sentiment]

Entry(success, preds) == [success |-> success, predictions |-> preds]

StructEntries ==
    {Entry(ok, [p \in ps |-> Opinion(1004, "POSITIVE")]) :
         ok \in BOOLEAN, ps \in SUBSET InputPeriods}

VoteEntries ==
    {Entry(TRUE, [p \in {"1d"} |-> Opinion(1004, s)]) : s \in SentimentTypes}
    \cup {Entry(FALSE, [p \in {"1d"} |-> Opinion(1004, "POSITIVE")])}

PriceEntries ==
    {Entry(TRUE, [p \in {"1d"} |-> Opinion(x, "POSITIVE")]) : x \in InputPrices}
    \cup {Entry(FALSE, [p \in {"1d"} |-> Opinion(1504, "POSITIVE")])}

OpinionWith(price, reason, sentiment) ==
    [price |-> price, reason |-> reason, sentiment |-> sentiment]

MixedOpinions ==
    {OpinionWith(244, "r1", "POSITIVE"),
     OpinionWith(1504, "r2", "NEGATIVE"),
     OpinionWith(1504, "r3", "NEUTRAL")}

MixedEntries ==
    {Entry(ok, [p \in {"1d"} |-> o]) : ok \in BOOLEAN, o \in MixedOpinions}
    \cup {Entry(ok, <<>>) : ok \in BOOLEAN}

Reasons == {"r1", "r2", "r3", "r4"}

ReasonEntries ==
    {Entry(TRUE, [p \in {"1d"} |-> OpinionWith(1004, r, "POSITIVE")]) :
         r \in Reasons}

SeqsUpTo(S, n) == UNION {[1..k -> S] : k \in 0..n}

EnsembleInputs ==
    SeqsUpTo(StructEntries, MaxStructModels)
    \cup SeqsUpTo(VoteEntries, MaxVoters)
    \cup SeqsUpTo(PriceEntries, MaxPricers)
    \cup SeqsUpTo(MixedEntries, MaxMixed)
    \cup SeqsUpTo(ReasonEntries, MaxReasoners)

\* the predictions of the independent request
OtherInputs ==
    {<<>>,
     <<Entry(TRUE, [p \in {"1d"} |-> Opinion(324, "NEGATIVE")]),
       Entry(TRUE, [p \in {"1d"} |-> Opinion(244, "NEGATIVE")])>>}

EnsembleInit ==
    /\ inputs \in EnsembleInputs
    /\ call = NoValue
    /\ engine = EnsembleEngine(ThresholdNum, ThresholdDen)
    /\ previous = NoValue
    /\ other = NoValue

EnsembleParked ==
    /\ inputs = <<>>
    /\ call = NoValue
    /\ engine = EnsembleEngine(ThresholdNum, ThresholdDen)
    /\ previous = NoValue
    /\ other = NoValue

\* engine.calculate_ensemble(predictions)
CalculateEnsembleCall ==
    /\ call = NoValue
    /\ call' = [op |-> "calculate_ensemble", period |-> "",
                result |-> CalculateEnsemble(inputs)]
    /\ UNCHANGED <<inputs, engine, previous, other>>
    /\ UNCHANGED <<resolverVars, dispatchVars, pipelineVars>>

\* engine.calculate_ensemble(predictions) once more, with the same argument
CalculateEnsembleAgain ==
    /\ call # NoValue
    /\ call.op = "calculate_ensemble"
    /\ previous = NoValue
    /\ previous' = call
    /\ call' = [op |-> "calculate_ensemble", period |-> "",
                result |-> CalculateEnsemble(inputs)]
    /\ UNCHANGED <<inputs, engine, other>>
    /\ UNCHANGED <<resolverVars, dispatchVars, pipelineVars>>

\* a request that retunes the shared engine for itself
OtherRequestSharing(in) ==
    /\ call # NoValue
    /\ call.op = "calculate_ensemble"
    /\ other = NoValue
    /\ engine' = EnsembleEngine(ThresholdNum, 2 * ThresholdDen)
    /\ other' = [input |-> in,
                 when |-> IF previous = NoValue THEN "between" ELSE "after",
                 result |-> CalculateEnsemble(in)]
    /\ UNCHANGED <<inputs, call, previous>>
    /\ UNCHANGED <<resolverVars, dispatchVars, pipelineVars>>

\* the same engine serves another request between or after the two calls:
\* calculate_ensemble has no await, so the event loop runs each call whole
OtherRequest(in) ==
    /\ call # NoValue
    /\ call.op = "calculate_ensemble"
    /\ other = NoValue
    /\ other' = [input |-> in,
                 when |-> IF previous = NoValue THEN "between" ELSE "after",
                 result |-> CalculateEnsemble(in)]
    /\ UNCHANGED <<inputs, call, engine, previous>>
    /\ UNCHANGED <<resolverVars, dispatchVars, pipelineVars>>

\* engine.detect_disagreement(predictions, period)
DetectDisagreementCall(period) ==
    /\ call = NoValue
    /\ call' = [op |-> "detect_disagreement", period |-> period,
                result |-> DetectDisagreement(inputs, period)]
    /\ UNCHANGED <<inputs, engine, previous, other>>
    /\ UNCHANGED <<resolverVars, dispatchVars, pipelineVars>>

\* engine.calculate_consensus(predictions, period)
CalculateConsensusCall(period) ==
    /\ call = NoValue
    /\ call' = [op |-> "calculate_consensus", period |-> period,
                result |-> CalculateConsensus(inputs, period)]
    /\ UNCHANGED <<inputs, engine, previous, other>>
    /\ UNCHANGED <<resolverVars, dispatchVars, pipelineVars>>

NextEnsemble ==
    \/ CalculateEnsembleCall
    \/ CalculateEnsembleAgain
    \/ \E in \in OtherInputs : OtherRequest(in)
    \/ \E period \in QueryPeriods : DetectDisagreementCall(period)
    \/ \E period \in QueryPeriods : CalculateConsensusCall(period)

(* ---- claims about the ensemble engine ---- *)

Aggregated == call # NoValue /\ call.op = "calculate_ensemble"

Returned == Aggregated /\ call.result.kind = "ensemble"

\* an input entry with success == true and non-empty opinions exists
HasValidEntry ==
    \E i \in DOMAIN inputs :
        inputs[i].success /\ DOMAIN inputs[i].predictions # {}

\* the two ValueErrors raised before any period is looked at
NoValidPredictions(r) == r = ErrEmpty \/ r = ErrNoValid

\* the ValueError raised after the loop over the periods
NoValidEnsemble(r) == r = ErrNoEnsemble

(* C7: calculate_ensemble fails with NoValidPredictions exactly when no     *)
(* input entry has success == true and non-empty opinions; the empty map    *)
(* and a map of failed entries only are such inputs.                        *)
C7_NoValidPredictions ==
    Aggregated => (NoValidPredictions(call.result) <=> ~HasValidEntry)

\* a call over a failed entry that has opinions and a successful entry
\* that has none
C7_Witness ==
    /\ Aggregated
    /\ Len(inputs) = 2
    /\ ~inputs[1].success /\ DOMAIN inputs[1].predictions # {}
    /\ inputs[2].success /\ DOMAIN inputs[2].predictions = {}
    /\ call.result = ErrNoValid

\* the valid providers that have an opinion for h
ProvidersFor(h) ==
    {i \in DOMAIN inputs : /\ inputs[i].success
                           /\ DOMAIN inputs[i].predictions # {}
                           /\ h \in DOMAIN inputs[i].predictions}

Covered == {h \in {"1d", "1w", "1m"} : ProvidersFor(h) # {}}

(* C8: when valid providers exist, the map calculate_ensemble returns has   *)
(* exactly the configured periods for which some valid provider has an      *)
(* opinion; it is never empty, and the call fails with NoValidEnsemble      *)
(* exactly when no configured period has an opinion.  (A call that the      *)
(* constructor of an EnsemblePrediction aborts returns no map.)             *)
C8_PeriodsWithOpinions ==
    Aggregated /\ HasValidEntry =>
        /\ NoValidEnsemble(call.result) <=> Covered = {}
        /\ call.result.kind = "ensemble" =>
               /\ DOMAIN call.result.value = Covered
               /\ Covered # {}
        /\ Covered # {} => call.result.kind \in {"ensemble", "ValidationError"}

\* a returned map that has "1d" and "1m", without "1w", although a valid
\* provider also has an opinion for the period "3m"
C8_Witness ==
    /\ Returned
    /\ DOMAIN call.result.value = {"1d", "1m"}
    /\ \E i \in DOMAIN inputs :
           inputs[i].success /\ "3m" \in DOMAIN inputs[i].predictions

(* C9: in every EnsemblePrediction calculate_ensemble returns, disagreement *)
(* is true exactly when the record's price is positive and its std_dev      *)
(* divided by its price exceeds the threshold; detect_disagreement returns  *)
(* false for fewer than two successful providers.                           *)
C9_DisagreementMatchesFields ==
    /\ Returned =>
           \A h \in DOMAIN call.result.value :
               LET o == call.result.value[h]
               IN  o.disagreement <=>
                       /\ o.price > 0
                       /\ o.std_dev * ThresholdDen > ThresholdNum * o.price
    /\ (call # NoValue /\ call.op = "detect_disagreement") =>
           (Cardinality({i \in DOMAIN inputs :
                             /\ inputs[i].success
                             /\ call.period \in DOMAIN inputs[i].predictions}) < 2
                => call.result = FALSE)

\* the part of C9 about detect_disagreement: the flag of the returned
\* record for a period is the one detect_disagreement gives for it
DetectAgreesWithEnsemble ==
    Returned =>
        \A h \in DOMAIN call.result.value :
            call.result.value[h].disagreement = DetectDisagreement(inputs, h)

\* the sentiments collected for h, by position in the input
SentimentAt(h, i) == inputs[i].predictions[h].sentiment

VotesFor(h, v) == Cardinality({i \in ProvidersFor(h) : SentimentAt(h, i) = v})

Tied(h) ==
    {v \in SentimentTypes :
        /\ VotesFor(h, v) > 0
        /\ \A w \in SentimentTypes : VotesFor(h, v) >= VotesFor(h, w)}

FirstOccurrence(h, v) ==
    CHOOSE i \in ProvidersFor(h) :
        /\ SentimentAt(h, i) = v
        /\ \A j \in ProvidersFor(h) : SentimentAt(h, j) = v => i <= j

\* the tied value met first in the scan
FirstEncountered(h) ==
    CHOOSE v \in Tied(h) :
        \A w \in Tied(h) : FirstOccurrence(h, v) <= FirstOccurrence(h, w)

\* the value whose running count is the first to reach the maximum count
FirstToReachMax(h) ==
    LET running(i) == Cardinality({j \in ProvidersFor(h) :
                          j <= i /\ SentimentAt(h, j) = SentimentAt(h, i)})
        reached(i) == \A w \in SentimentTypes : running(i) >= VotesFor(h, w)
        first == CHOOSE i \in ProvidersFor(h) :
                     reached(i) /\ \A j \in ProvidersFor(h) : reached(j) => i <= j
    IN  SentimentAt(h, first)

\* the sentiment a call reports for period h, if it reports one
Reports(h, v) ==
    \/ Returned /\ h \in DOMAIN call.result.value
                /\ call.result.value[h].sentiment = v
    \/ /\ call # NoValue /\ call.op = "calculate_consensus" /\ call.period = h
       /\ call.result = SentimentValue(v)

Reporting(h) ==
    /\ ProvidersFor(h) # {}
    /\ \/ Returned /\ h \in DOMAIN call.result.value
       \/ call # NoValue /\ call.op = "calculate_consensus" /\ call.period = h

(* C10 as the specification states it: when several sentiments tie for the  *)
(* maximum count, the consensus is the value whose count first reaches the  *)
(* maximum in the scan of the opinions in insertion order.                  *)
C10_FirstToReachMax ==
    \A h \in {"1d", "1w", "1m"} :
        Reporting(h) /\ Cardinality(Tied(h)) > 1 => Reports(h, FirstToReachMax(h))

(* C10: when several sentiments tie for the maximum count, the consensus is *)
(* the tied value that is met first in the scan of the opinions in          *)
(* insertion order.                                                         *)
C10_FirstEncounteredAmongTied ==
    \A h \in {"1d", "1w", "1m"} :
        Reporting(h) /\ Cardinality(Tied(h)) > 1 => Reports(h, FirstEncountered(h))

\* a 2-2 tie in which the second value completes its two votes before the
\* first one does, and the first one is returned
C10_Witness ==
    /\ Returned
    /\ "1d" \in DOMAIN call.result.value
    /\ Cardinality(Tied("1d")) = 2
    /\ FirstToReachMax("1d") # FirstEncountered("1d")
    /\ call.result.value["1d"].sentiment = FirstEncountered("1d")

\* the input without its failed and its empty entries
WithoutInvalid(preds) ==
    SelectSeq(preds, LAMBDA e : e.success /\ DOMAIN e.predictions # {})

\* the same output: the same map, or the same failure; both ValueErrors
\* raised before the loop are the failure NoValidPredictions
SameOutput(a, b) == a = b \/ (NoValidPredictions(a) /\ NoValidPredictions(b))

(* C21: calculate_ensemble gives for an input the output it gives for the   *)
(* same input without the entries that have success == false or no          *)
(* opinions, whatever those entries carry.                                  *)
C21_InvalidEntriesContributeNothing ==
    Aggregated => SameOutput(call.result, CalculateEnsemble(WithoutInvalid(inputs)))

\* a returned map over one valid entry, a failed entry with another price,
\* sentiment and reason, and an entry without opinions
C21_Witness ==
    /\ Returned
    /\ Len(inputs) = 3
    /\ inputs[1] = Entry(FALSE, [p \in {"1d"} |-> OpinionWith(1504, "r2", "NEGATIVE")])
    /\ inputs[2] = Entry(TRUE, [p \in {"1d"} |-> OpinionWith(244, "r1", "POSITIVE")])
    /\ inputs[3] = Entry(TRUE, <<>>)
    /\ call.result.value["1d"].price = 24
    /\ call.result.value["1d"].reason = "r1"
    /\ call.result.value["1d"].sentiment = "POSITIVE"

\* the entries with success == true and non-empty opinions
ValidEntries ==
    {i \in DOMAIN inputs : inputs[i].success /\ DOMAIN inputs[i].predictions # {}}

\* a configured period for which every valid entry has an opinion
CommonHorizons ==
    {h \in {"1d", "1w", "1m"} :
        \A i \in ValidEntries : h \in DOMAIN inputs[i].predictions}

(* C22 as the specification states it: calculate_ensemble fails with        *)
(* NoValidEnsemble whenever valid entries exist and there is no period for  *)
(* which every valid entry has an opinion.                                  *)
C22_NoCommonHorizon ==
    Aggregated /\ ValidEntries # {} /\ CommonHorizons = {}
        => NoValidEnsemble(call.result)

(* C22: calculate_ensemble fails with NoValidEnsemble whenever valid        *)
(* entries exist and there is no configured period for which some valid     *)
(* entry has an opinion.                                                    *)
C22_NoHorizonWithOpinion ==
    Aggregated /\ ValidEntries # {}
               /\ (\A h \in {"1d", "1w", "1m"} : \A i \in ValidEntries :
                       h \notin DOMAIN inputs[i].predictions)
        => NoValidEnsemble(call.result)

\* two valid entries whose only opinions are for the period "3m"
C22_Witness ==
    /\ Aggregated
    /\ Len(inputs) = 2
    /\ \A i \in DOMAIN inputs :
           inputs[i].success /\ DOMAIN inputs[i].predictions = {"3m"}
    /\ call.result = ErrNoEnsemble

PriceAt(h, i) == inputs[i].predictions[h].price

\* the sum of the prices, and of their squares, that the providers S have
\* for h
RECURSIVE PriceSum(_, _)
PriceSum(S, h) ==
    IF S = {} THEN 0
    ELSE LET i == CHOOSE j \in S : TRUE
         IN  PriceAt(h, i) + PriceSum(S \ {i}, h)

RECURSIVE SquareSum(_, _)
SquareSum(S, h) ==
    IF S = {} THEN 0
    ELSE LET i == CHOOSE j \in S : TRUE
         IN  PriceAt(h, i) * PriceAt(h, i) + SquareSum(S \ {i}, h)

(* C23: in every EnsemblePrediction calculate_ensemble returns, price is    *)
(* the arithmetic mean of the prices of all valid providers' opinions for   *)
(* that period, rounded to two decimals: no other multiple of 0.01 is       *)
(* nearer to the mean.                                                      *)
C23_PriceIsRoundedMean ==
    Returned =>
        \A h \in DOMAIN call.result.value :
            LET n == Cardinality(ProvidersFor(h))
                sum == PriceSum(ProvidersFor(h), h)
                diff == sum - 10 * n * call.result.value[h].price
            IN  /\ n > 0
                /\ 2 * diff <= 10 * n
                /\ -2 * diff <= 10 * n

\* the prices 0.004, 1.004 and 1.504, whose mean 0.8373... gives 0.84
C23_Witness ==
    /\ Returned
    /\ Len(inputs) = 3
    /\ \A i \in DOMAIN inputs :
           inputs[i].success /\ DOMAIN inputs[i].predictions = {"1d"}
    /\ PriceAt("1d", 1) = 4 /\ PriceAt("1d", 2) = 1004 /\ PriceAt("1d", 3) = 1504
    /\ call.result.value["1d"].price = 84

(* C24: in every EnsemblePrediction calculate_ensemble returns, std_dev is  *)
(* the sample standard deviation (denominator n - 1) of the collected       *)
(* prices rounded to two decimals when more than one opinion was            *)
(* collected, and 0 with disagreement false when exactly one was; it is     *)
(* never negative.                                                          *)
C24_StdDevIsRoundedSampleDeviation ==
    Returned =>
        \A h \in DOMAIN call.result.value :
            LET n == Cardinality(ProvidersFor(h))
                sum == PriceSum(ProvidersFor(h), h)
                d == n * SquareSum(ProvidersFor(h), h) - sum * sum
                r == call.result.value[h].std_dev
                unit == 25 * n * (n - 1)
            IN  /\ r >= 0
                /\ n = 1 => r = 0 /\ ~call.result.value[h].disagreement
                /\ n > 1 => /\ r > 0 => (2 * r - 1) * (2 * r - 1) * unit <= d
                            /\ d <= (2 * r + 1) * (2 * r + 1) * unit

\* the prices 1.004 and 1.504: the sample deviation 0.3535... gives 0.35
\* (the population deviation is 0.25)
C24_Witness ==
    /\ Returned
    /\ Len(inputs) = 2
    /\ \A i \in DOMAIN inputs :
           inputs[i].success /\ DOMAIN inputs[i].predictions = {"1d"}
    /\ PriceAt("1d", 1) = 1004 /\ PriceAt("1d", 2) = 1504
    /\ call.result.value["1d"].std_dev = 35
    /\ call.result.value["1d"].disagreement

Consulted == call # NoValue /\ call.op = "calculate_consensus"

\* two opinions, one vote each
OneOneTie(h) == Cardinality(ProvidersFor(h)) = 2 /\ Cardinality(Tied(h)) = 2

(* C25: the sentiment of every returned EnsemblePrediction has the maximum  *)
(* number of votes among the opinions collected for its period, and is the  *)
(* first-encountered one in a 1-1 tie; calculate_consensus returns the      *)
(* value of that sentiment for a period the ensemble has, a value with the  *)
(* maximum number of votes in any case, and neutral when no successful      *)
(* provider has an opinion for the period.                                  *)
C25_ConsensusIsMajority ==
    /\ Returned =>
           \A h \in DOMAIN call.result.value :
               /\ call.result.value[h].sentiment \in Tied(h)
               /\ OneOneTie(h) =>
                      call.result.value[h].sentiment = FirstEncountered(h)
    /\ Consulted =>
           LET h == call.period
               e == CalculateEnsemble(inputs)
           IN  IF ProvidersFor(h) = {}
               THEN call.result = SentimentValue("NEUTRAL")
               ELSE /\ \E v \in Tied(h) : call.result = SentimentValue(v)
                    /\ OneOneTie(h) =>
                           call.result = SentimentValue(FirstEncountered(h))
                    /\ (e.kind = "ensemble" /\ h \in DOMAIN e.value) =>
                           call.result = SentimentValue(e.value[h].sentiment)

\* calculate_consensus over the votes positive, positive, negative
C25_Witness ==
    /\ Consulted
    /\ call.period = "1d"
    /\ Len(inputs) = 3
    /\ \A i \in DOMAIN inputs :
           inputs[i].success /\ DOMAIN inputs[i].predictions = {"1d"}
    /\ SentimentAt("1d", 1) = "POSITIVE"
    /\ SentimentAt("1d", 2) = "POSITIVE"
    /\ SentimentAt("1d", 3) = "NEGATIVE"
    /\ call.result = SentimentValue("POSITIVE")

ReasonAt(h, i) == inputs[i].predictions[h].reason

\* the providers whose reason for h no earlier provider gave
FirstSeen(h) ==
    {i \in ProvidersFor(h) :
        \A j \in ProvidersFor(h) : j < i => ReasonAt(h, j) # ReasonAt(h, i)}

\* the k-th of them in input order
NthFirstSeen(h, k) ==
    CHOOSE i \in FirstSeen(h) : Cardinality({j \in FirstSeen(h) : j <= i}) = k

\* at most the first three distinct reasons, in first-seen order
LeadingReasons(h) ==
    LET m == IF Cardinality(FirstSeen(h)) > 3 THEN 3 ELSE Cardinality(FirstSeen(h))
    IN  [k \in 1..m |-> ReasonAt(h, NthFirstSeen(h, k))]

(* C26: the reason of every returned EnsemblePrediction is the first three  *)
(* at most of the distinct reasons collected for its period, in first-seen  *)
(* order, joined by the separator, followed by the truncation marker        *)
(* exactly when more than three distinct reasons were collected.            *)
C26_ReasonIsConsolidated ==
    Returned =>
        \A h \in DOMAIN call.result.value :
            call.result.value[h].reason =
                Join(LeadingReasons(h), " | ")
                    \o (IF Cardinality(FirstSeen(h)) > 3 THEN " oe" ELSE "")

\* five reasons, one of them repeated, four distinct: three are kept in
\* first-seen order and the marker follows
C26_Witness ==
    /\ Returned
    /\ Len(inputs) = 5
    /\ \A i \in DOMAIN inputs :
           inputs[i].success /\ DOMAIN inputs[i].predictions = {"1d"}
    /\ ReasonAt("1d", 1) = "r2" /\ ReasonAt("1d", 2) = "r1"
    /\ ReasonAt("1d", 3) = "r2" /\ ReasonAt("1d", 4) = "r4"
    /\ ReasonAt("1d", 5) = "r3"
    /\ call.result.value["1d"].reason = "r2 | r1 | r4 oe"

\* the second call returns what the first one returned, and the other
\* request got what its input gives on its own
C27_SameResult ==
    /\ previous # NoValue => call.result = previous.result
    /\ other # NoValue => other.result = CalculateEnsemble(other.input)

\* no step changes the argument or the engine
C27_NothingModified == inputs' = inputs /\ engine' = engine

PipelinePredictors == {"GPT", "Gemini", "Claude"}

\* raw sentiment strings a model may write
RawSentiments == {"positive", "sell", "hold"}

\* the keyword lists of _normalize_sentiment (parser.py:160-162), in Latin
\* letters; a keyword is found when the lowered, stripped string is that
\* keyword
PositiveKeywords == {"positive", "bullish", "buy"}
NegativeKeywords == {"negative", "bearish", "sell"}

\* _normalize_sentiment (parser.py:145-173)
NormalizeSentiment(sentiment) ==
    IF sentiment \in PositiveKeywords THEN "POSITIVE"
    ELSE IF sentiment \in NegativeKeywords THEN "NEGATIVE"
    ELSE "NEUTRAL"

\* the object a model writes for one period; price 0 stands for a missing
\* "price" key when has_price is FALSE
PeriodData(has_price, price, reason, sentiment) ==
    [has_price |-> has_price, price |-> price, reason |-> reason, sentiment |-> sentiment]

GoodData == PeriodData(TRUE, 1004, "r1", "positive")
NoPriceData == PeriodData(FALSE, 0, "r1", "sell")
ZeroPriceData == PeriodData(TRUE, 0, "r1", "hold")

\* the JSON objects of the modelled responses
JsonObjects ==
    { [p \in {"1d", "1w", "1m"} |-> GoodData],
      [p \in {"1d"} |-> GoodData],
      [p \in {"1d", "1w", "1m"} |-> IF p = "1w" THEN NoPriceData ELSE GoodData],
      [p \in {"1d", "1w", "1m"} |-> IF p = "1m" THEN ZeroPriceData ELSE GoodData],
      [p \in {"3m"} |-> GoodData] }

\* content: empty text, text without JSON, or text holding a JSON object
Contents ==
    {[text |-> "", json |-> None], [text |-> "prose", json |-> None]}
    \cup {[text |-> "json", json |-> [kind |-> "object", periods |-> j]] :
              j \in JsonObjects}

\* the dict a predictor returns (anthropic_predictor.py:85-89 and the like)
ResponseWith(m, content) ==
    [kind |-> "dict", model |-> m, content |-> content, success |-> TRUE]

\* what predict_all can hold for one dispatched model
RawResponses(m) == {None} \cup {ResponseWith(m, c) : c \in Contents}

\* PeriodPrediction(price=..., reason=..., sentiment=...)
\* (models/prediction.py:17-27)
PeriodPrediction(price, reason, sentiment) ==
    IF price <= 0 \/ reason = "" THEN ErrValidation
    ELSE [price |-> price, reason |-> reason, sentiment |-> sentiment]

\* ModelPrediction(model_name=..., predictions=..., success=...): the
\* validator validate_predictions rejects an empty dict
\* (models/prediction.py:30-49)
ModelPrediction(model_name, preds, success) ==
    IF DOMAIN preds = {} \/ model_name = "" THEN ErrValidation
    ELSE [kind |-> "ModelPrediction", model_name |-> model_name,
          predictions |-> preds, success |-> success]

\* _extract_json (parser.py:109-142)
ExtractJson(content) == content.json

\* parse_response (parser.py:17-106): a ModelPrediction, or None
ParseResponse(model_name, response) ==
    IF response = None \/ ~response.success THEN None
    ELSE IF response.content.text = "" THEN None
    ELSE LET parsed_data == ExtractJson(response.content)
         IN  IF parsed_data = None THEN None
             ELSE LET data == parsed_data.periods
                      kept == {p \in {"1d", "1w", "1m"} \cap DOMAIN data :
                                  data[p].has_price}
                      built == [p \in kept |->
                                   PeriodPrediction(data[p].price, data[p].reason,
                                       NormalizeSentiment(data[p].sentiment))]
                  IN  IF \E p \in kept : built[p] = ErrValidation THEN None
                      ELSE IF kept = {} THEN None
                      ELSE ModelPrediction(model_name, built, TRUE)

\* what _parse_predictions stores for one item (prediction_service.py:117-152):
\* the placeholder of a failed model is ModelPrediction(predictions={}, ...),
\* built at line 119 outside the try, at line 138 inside it and at line 147 in
\* its except clause
ParseItem(model_name, raw_response) ==
    IF raw_response = None THEN ModelPrediction(model_name, <<>>, FALSE)
    ELSE LET parsed_prediction == ParseResponse(model_name, raw_response)
         IN  IF parsed_prediction # None THEN parsed_prediction
             ELSE LET placeholder == ModelPrediction(model_name, <<>>, FALSE)
                  IN  IF placeholder = ErrValidation
                      THEN ModelPrediction(model_name, <<>>, FALSE)
                      ELSE placeholder

\* _parse_predictions (prediction_service.py:101-154): the parsed dict, or
\* the exception that leaves the loop
ParsePredictions(raw) ==
    LET items == [i \in DOMAIN raw |-> ParseItem(raw[i].name, raw[i].value)]
    IN  IF \E i \in DOMAIN items : items[i] = ErrValidation THEN ErrValidation
        ELSE [kind |-> "parsed",
              items |-> [i \in DOMAIN raw |->
                            [name |-> raw[i].name, value |-> items[i]]]]

ValuesOf(items) == [i \in DOMAIN items |-> items[i].value]

\* PredictionResult(...) (models/result.py:25-58).  The field predictions
\* is declared Dict[str, Dict[str, PeriodPrediction]]: a value that is not
\* a dict is rejected, and validate_predictions and validate_ensemble ask
\* for the three periods.
PredictionResult(preds, ensemble) ==
    LET required_periods == {"1d", "1w", "1m"}
    IN  IF \E i \in DOMAIN preds : preds[i].value.kind # "dict" THEN ErrValidation
        ELSE IF preds = <<>> THEN ErrValidation
        ELSE IF \E i \in DOMAIN preds :
                    ~(required_periods \subseteq DOMAIN preds[i].value.periods)
             THEN ErrValidation
        ELSE IF ~(required_periods \subseteq DOMAIN ensemble) THEN ErrValidation
        ELSE [kind |-> "PredictionResult", predictions |-> preds,
              ensemble |-> ensemble]

\* `except Exception as e: raise RuntimeError(...)` (prediction_service.py:95-99)
RuntimeError(e) == [kind |-> "RuntimeError", cause |-> e]

ErrCollect == [kind |-> "RuntimeError", msg |-> "realtime data collection failed"]

\* the raw_predictions that predict_all can return when `registered`
\* predictors exist and every prompt is given
RawPredictions(registered) ==
    LET names == BuildModelNames(DispatchTable, registered, PromptKeys)
    IN  {[kind |-> "dict",
          items |-> [i \in DOMAIN names |-> [name |-> names[i], value |-> f[i]]]] :
            f \in {g \in [DOMAIN names -> UNION {RawResponses(names[i]) :
                                                     i \in DOMAIN names}] :
                       \A i \in DOMAIN names : g[i] \in RawResponses(names[i])}}

PipelineInit ==
    /\ ppc = "idle"
    /\ raw_predictions = NoValue
    /\ parsed_predictions = NoValue
    /\ ensemble_result = NoValue
    /\ outcome = NoValue

PipelineParked == PipelineInit

\* predict up to the await of collect_all (prediction_service.py:52-62);
\* collect_all raises when the realtime data cannot be collected
\* (collector.py:75-77)
CollectAll(ok) ==
    /\ ppc = "idle"
    /\ IF ok
       THEN ppc' = "collected" /\ outcome' = NoValue
       ELSE ppc' = "done" /\ outcome' = RuntimeError(ErrCollect)
    /\ raw_predictions' = NoValue
    /\ parsed_predictions' = NoValue
    /\ ensemble_result' = NoValue
    /\ UNCHANGED <<resolverVars, dispatchVars, ensembleVars>>

\* the prompts are built and predict_all is awaited (prediction_service.py:66-70)
AwaitPredictAll(raw) ==
    /\ ppc = "collected"
    /\ raw_predictions' = raw
    /\ ppc' = "predicted"
    /\ UNCHANGED <<parsed_predictions, ensemble_result, outcome>>
    /\ UNCHANGED <<resolverVars, dispatchVars, ensembleVars>>

\* the rest of predict: parsing, ensemble, result (prediction_service.py:74-99)
Finish ==
    /\ ppc = "predicted"
    /\ LET parsed == ParsePredictions(raw_predictions.items)
           ens == IF parsed = ErrValidation THEN NoValue
                  ELSE CalculateEnsemble(ValuesOf(parsed.items))
           result == IF ens = NoValue \/ ens.kind # "ensemble" THEN NoValue
                     ELSE PredictionResult(parsed.items, ens.value)
       IN  /\ parsed_predictions' = parsed
           /\ ensemble_result' = ens
           /\ outcome' = IF parsed = ErrValidation THEN RuntimeError(parsed)
                         ELSE IF ens.kind # "ensemble" THEN RuntimeError(ens)
                         ELSE IF result = ErrValidation THEN RuntimeError(result)
                         ELSE result
    /\ ppc' = "done"
    /\ UNCHANGED raw_predictions
    /\ UNCHANGED <<resolverVars, dispatchVars, ensembleVars>>

\* the caller has its answer; the next request starts
NextRequest ==
    /\ ppc = "done"
    /\ ppc' = "idle"
    /\ raw_predictions' = NoValue
    /\ parsed_predictions' = NoValue
    /\ ensemble_result' = NoValue
    /\ outcome' = NoValue
    /\ UNCHANGED <<resolverVars, dispatchVars, ensembleVars>>

NextPipeline ==
    \/ \E ok \in BOOLEAN : CollectAll(ok)
    \/ \E registered \in SUBSET PipelinePredictors :
           \E raw \in RawPredictions(registered) : AwaitPredictAll(raw)
    \/ Finish
    \/ NextRequest

(* ---- claims about the prediction pipeline ---- *)

\* predict has ended for a request whose dispatch returned
Answered == ppc = "done" /\ raw_predictions.kind = "dict"

\* the dispatched models with a null result or an unparsable response
FailedItems ==
    {i \in DOMAIN raw_predictions.items :
        LET item == raw_predictions.items[i]
        IN  item.value = None \/ ParseResponse(item.name, item.value) = None}

(* C11: a predictor whose dispatch result is null, or whose response cannot *)
(* be parsed, appears in parsed_predictions as an entry with success false  *)
(* and no period predictions, and the request goes on to the ensemble       *)
(* engine: a failed predictor does not abort the request.                   *)
C11_FailedPredictorIsPlaceholder ==
    Answered =>
        \A i \in FailedItems :
            /\ parsed_predictions.kind = "parsed"
            /\ ~parsed_predictions.items[i].value.success
            /\ DOMAIN parsed_predictions.items[i].value.predictions = {}
            /\ ensemble_result # NoValue

(* C12: every request ends with a PredictionResult or with one of the two   *)
(* failures of the ensemble engine, NoValidPredictions or NoValidEnsemble;  *)
(* no other error reaches the caller.                                       *)
C12_ResultOrAggregateFailure ==
    ppc = "done" =>
        \/ outcome.kind = "PredictionResult"
        \/ /\ outcome.kind = "RuntimeError"
           /\ NoValidPredictions(outcome.cause) \/ NoValidEnsemble(outcome.cause)

(***************************************************************************)
(*                          SPECIFICATIONS                                 *)
(***************************************************************************)
Init == ResolverInit /\ DispatchParked /\ EnsembleParked /\ PipelineParked

Next == NextResolver

Spec == Init /\ [][Next]_vars

\* a deployment without the optional libraries and without an Alpha Vantage
\* key: Yahoo Finance is the one source that starts enabled
InitConcurrent ==
    /\ Init
    /\ \A s \in SourceNames \ {"YahooFinance"} : ~available[s]

SpecConcurrent == InitConcurrent /\ [][NextConcurrent]_vars

InitDispatch == ResolverParked /\ DispatchInit /\ EnsembleParked /\ PipelineParked

SpecDispatch == InitDispatch /\ [][NextDispatch]_vars

\* time passes, timers fire and the event loop resumes the gather; nothing
\* obliges a predictor to respond
SpecDispatchFair ==
    /\ SpecDispatch
    /\ WF_vars(Tick)
    /\ \A m \in ModelNameSet : WF_vars(Timeout(m))
    /\ WF_vars(Gather)

InitEnsemble == ResolverParked /\ DispatchParked /\ EnsembleInit /\ PipelineParked

SpecEnsemble == InitEnsemble /\ [][NextEnsemble]_vars

InitPipeline == ResolverParked /\ DispatchParked /\ EnsembleParked /\ PipelineInit

SpecPipeline == InitPipeline /\ [][NextPipeline]_vars

====
